---- MODULE Spec2Model ----
(***************************************************************************)
(* The expression lexer of core/expression/src/lexer/lexer.rs.             *)
(*                                                                         *)
(* A source is a sequence of one-character strings.  Offsets are 0-based   *)
(* as in the Rust code, so the character at offset i is source[i + 1].     *)
(* The cursor is the number of characters consumed so far.                 *)
(***************************************************************************)
EXTENDS Integers, Sequences, FiniteSets, TLC

VARIABLES
    source,   \* Scanner.source: the text of the tokenize call in progress
    pos,      \* Scanner.cursor: offset of the next character to consume
    tokens,   \* Lexer.tokens: the token buffer
    stack,    \* template_string invocations in progress, innermost last
    pc,       \* "idle" (constructed), "scan" (inside tokenize), "done"
    result,   \* what the last tokenize call returned
    calls     \* how many times tokenize was called on this Lexer

vars == <<source, pos, tokens, stack, pc, result, calls>>

----------------------------------------------------------------------------
(* Character classes (lexer::codes, token_type! / is_token_type!).         *)

Space == {" "}

Digit == {"0", "1", "2", "3", "4", "5", "6", "7", "8", "9"}

Alpha == {"a", "b", "c", "d", "e", "f", "g", "h", "i", "j", "k", "l", "m",
          "n", "o", "p", "q", "r", "s", "t", "u", "v", "w", "x", "y", "z",
          "A", "B", "C", "D", "E", "F", "G", "H", "I", "J", "K", "L", "M",
          "N", "O", "P", "Q", "R", "S", "T", "U", "V", "W", "X", "Y", "Z"}

Alphanumeric == Alpha \cup Digit

BracketChars == {"(", ")", "[", "]", "{", "}"}

CmpOperatorChars == {"<", ">", "=", "!"}

OperatorChars == {"+", "-", "*", "/", "%", "^", ",", ":"}

QuestionMarkChars == {"?"}

(* The backtick character, which opens and closes a template string.       *)
BT == "backtick"

----------------------------------------------------------------------------
(* Token kinds and the fallible text-to-kind conversions (lexer::token).   *)

BracketKind(value) ==
    CASE value = <<"(">> -> "Bracket(LeftParenthesis)"
      [] value = <<")">> -> "Bracket(RightParenthesis)"
      [] value = <<"[">> -> "Bracket(LeftSquareBracket)"
      [] value = <<"]">> -> "Bracket(RightSquareBracket)"
      [] value = <<"{">> -> "Bracket(LeftCurlyBracket)"
      [] value = <<"}">> -> "Bracket(RightCurlyBracket)"
      [] OTHER -> "Invalid"

OperatorKind(value) ==
    CASE value = <<"+">> -> "Operator(Arithmetic(Add))"
      [] value = <<"-">> -> "Operator(Arithmetic(Subtract))"
      [] value = <<"*">> -> "Operator(Arithmetic(Multiply))"
      [] value = <<"/">> -> "Operator(Arithmetic(Divide))"
      [] value = <<"%">> -> "Operator(Arithmetic(Modulus))"
      [] value = <<"^">> -> "Operator(Arithmetic(Power))"
      [] value = <<",">> -> "Operator(Comma)"
      [] value = <<":">> -> "Operator(Slice)"
      [] value = <<".">> -> "Operator(Dot)"
      [] value = <<".", ".">> -> "Operator(Range)"
      [] value = <<"<">> -> "Operator(Comparison(LessThan))"
      [] value = <<">">> -> "Operator(Comparison(GreaterThan))"
      [] value = <<"<", "=">> -> "Operator(Comparison(LessThanOrEqual))"
      [] value = <<">", "=">> -> "Operator(Comparison(GreaterThanOrEqual))"
      [] value = <<"=", "=">> -> "Operator(Comparison(Equal))"
      [] value = <<"!", "=">> -> "Operator(Comparison(NotEqual))"
      [] value = <<"!">> -> "Operator(Logical(Not))"
      [] OTHER -> "Invalid"

QuoteKind(c) == IF c = "'" THEN "QuotationMark(SingleQuote)"
                ELSE "QuotationMark(DoubleQuote)"

Token(kind, start, end, value) ==
    [kind |-> kind, start |-> start, end |-> end, value |-> value]

(* &self.source[a..b]: the characters at offsets a .. b - 1.                *)
Slice(a, b) == SubSeq(source, a + 1, b)

----------------------------------------------------------------------------
(* Results and errors (lexer::error).                                      *)

NoResult == [kind |-> "None", symbol |-> "", position |-> 0]

OkResult == [kind |-> "Ok", symbol |-> "", position |-> 0]

UnexpectedEof(symbol, position) ==
    [kind |-> "UnexpectedEof", symbol |-> symbol, position |-> position]

UnmatchedSymbol(symbol, position) ==
    [kind |-> "UnmatchedSymbol", symbol |-> symbol, position |-> position]

(* What a scan routine hands back: the cursor it leaves, the tokens it     *)
(* pushed, and the error it returned (NoResult when it returned Ok).       *)
Done(p, toks) == [pos |-> p, toks |-> toks, err |-> NoResult]

Fail(p, err) == [pos |-> p, toks |-> <<>>, err |-> err]

----------------------------------------------------------------------------
(* Cursor (lexer::cursor), as functions of the cursor offset p.            *)

None == <<>>

peek(p) == IF p < Len(source) THEN <<p, source[p + 1]>> ELSE None

peek_back(p) == IF p > 0 THEN <<p - 1, source[p]>> ELSE None

back(p) == p - 1

position(p) == p

(* next_if_is: TRUE, and the literal consumed, only when the remaining     *)
(* source starts with the literal; otherwise nothing is consumed.          *)
next_if_is(p, literal) ==
    /\ p + Len(literal) <= Len(source)
    /\ SubSeq(source, p + 1, p + Len(literal)) = literal

(* Mutant: the error carries the default sentinel, not the last character.*)
next_eof_sentinel(p) == UnexpectedEof(" ", 0)

(* Scanner::next: the error built when the cursor is exhausted.            *)
next_eof(p) ==
    LET b == IF peek_back(p) = None THEN <<0, " ">> ELSE peek_back(p)
    IN  UnexpectedEof(b[2], b[1])

----------------------------------------------------------------------------
(* The scan routines.  Each takes the cursor offset p at which it is       *)
(* entered (the offset of the character it was dispatched on) and yields   *)
(* the cursor it leaves and the tokens it pushes, or its error.            *)

QuoteValue(quote_kind) ==
    CASE quote_kind = "QuotationMark(SingleQuote)" -> <<"'">>
      [] quote_kind = "QuotationMark(DoubleQuote)" -> <<"\"">>
      [] OTHER -> <<BT>>

(* The loop of string(): the offset of the first opener at or after p,     *)
(* or -1 when next() fails first.                                          *)
RECURSIVE string_end(_, _)
string_end(p, opener) ==
    IF peek(p) = None THEN -1
    ELSE IF source[p + 1] = opener THEN p
    ELSE string_end(p + 1, opener)

(* Mutant: a closing brace or a backtick ends the string as well.          *)
RECURSIVE string_end_at_template_character(_, _)
string_end_at_template_character(p, opener) ==
    IF peek(p) = None THEN -1
    ELSE IF source[p + 1] \in {opener, "}", BT} THEN p
    ELSE string_end_at_template_character(p + 1, opener)

string_ended_by_template_character(p, quote_kind) ==
    LET start == p
        opener == source[p + 1]
        end == string_end_at_template_character(start + 1, opener)
    IN  IF end = -1
        THEN Fail(Len(source), next_eof(Len(source)))
        ELSE Done(end + 1,
                  << Token(quote_kind, start, start + 1, QuoteValue(quote_kind)),
                     Token("Literal", start + 1, end, Slice(start + 1, end)),
                     Token(quote_kind, end, end + 1, QuoteValue(quote_kind)) >>)

(* Mutant: either quote character closes the string.                       *)
string_closed_by_any_quote(p, quote_kind) ==
    LET start == p
        ends == {e \in (start + 1)..(Len(source) - 1) :
                    source[e + 1] \in {"'", "\""}}
        end == IF ends = {} THEN -1
               ELSE CHOOSE e \in ends : \A x \in ends : e <= x
    IN  IF end = -1
        THEN Fail(Len(source), next_eof(Len(source)))
        ELSE Done(end + 1,
                  << Token(quote_kind, start, start + 1, QuoteValue(quote_kind)),
                     Token("Literal", start + 1, end, Slice(start + 1, end)),
                     Token(quote_kind, end, end + 1, QuoteValue(quote_kind)) >>)

string(p, quote_kind) ==
    LET start == p
        opener == source[p + 1]
        end == string_end(start + 1, opener)
    IN  IF end = -1
        THEN Fail(Len(source), next_eof(Len(source)))
        ELSE Done(end + 1,
                  << Token(quote_kind, start, start + 1, QuoteValue(quote_kind)),
                     Token("Literal", start + 1, end, Slice(start + 1, end)),
                     Token(quote_kind, end, end + 1, QuoteValue(quote_kind)) >>)

(* Mutant: a dot is accepted without looking at the character after it.   *)
RECURSIVE number_loop_no_lookahead(_, _, _)
number_loop_no_lookahead(p, end, fractal) ==
    IF peek(p) # None /\ source[p + 1] \in Digit \cup {"_", "."}
    THEN LET e == p
             c == source[p + 1]
             after == p + 1
         IN  IF fractal /\ c = "."
             THEN [pos |-> back(after), end |-> end]
             ELSE number_loop_no_lookahead(after, e, fractal \/ c = ".")
    ELSE [pos |-> p, end |-> end]

(* Mutant: before a range the cursor is stepped back twice.                *)
RECURSIVE number_loop_backs_twice(_, _, _)
number_loop_backs_twice(p, end, fractal) ==
    IF peek(p) # None /\ source[p + 1] \in Digit \cup {"_", "."}
    THEN LET e == p
             c == source[p + 1]
             after == p + 1
         IN  IF fractal /\ c = "."
             THEN [pos |-> back(after), end |-> end]
             ELSE IF c = "." /\ peek(after) # None /\ peek(after)[2] = "."
             THEN [pos |-> back(back(after)), end |-> end]
             ELSE number_loop_backs_twice(after, e,
                              fractal \/ (c = "." /\ peek(after) # None))
    ELSE [pos |-> p, end |-> end]

(* The while-let loop of number(): p is the cursor, end the last offset    *)
(* accepted, fractal whether a fractional dot was seen.                    *)
RECURSIVE number_loop(_, _, _)
number_loop(p, end, fractal) ==
    IF peek(p) # None /\ source[p + 1] \in Digit \cup {"_", "."}
    THEN LET e == p
             c == source[p + 1]
             after == p + 1
         IN  IF fractal /\ c = "."
             THEN [pos |-> back(after), end |-> end]
             ELSE IF c = "." /\ peek(after) # None /\ peek(after)[2] = "."
             THEN [pos |-> back(after), end |-> end]
             ELSE number_loop(after, e,
                              fractal \/ (c = "." /\ peek(after) # None))
    ELSE [pos |-> p, end |-> end]

(* Mutant: the span of the Number token ends one character too far.       *)
number_span_one_too_far(p) ==
    LET start == p
        r == number_loop(start + 1, start, FALSE)
    IN  Done(r.pos, << Token("Number", start, r.end + 2,
                             Slice(start, r.end + 1)) >>)

number(p) ==
    LET start == p
        r == number_loop(start + 1, start, FALSE)
    IN  Done(r.pos, << Token("Number", start, r.end + 1,
                             Slice(start, r.end + 1)) >>)

conversion_error(value, start) == UnmatchedSymbol(value[1], start)

bracket(p) ==
    LET start == p
        value == Slice(start, start + 1)
    IN  IF BracketKind(value) = "Invalid"
        THEN Fail(start + 1, conversion_error(value, start))
        ELSE Done(start + 1,
                  << Token(BracketKind(value), start, start + 1, value) >>)

dot(p) ==
    LET start == p
        end == IF peek(start + 1) # None /\ peek(start + 1)[2] = "."
               THEN start + 1 ELSE start
        value == Slice(start, end + 1)
    IN  IF OperatorKind(value) = "Invalid"
        THEN Fail(end + 1, conversion_error(value, start))
        ELSE Done(end + 1,
                  << Token(OperatorKind(value), start, end + 1, value) >>)

cmp_operator(p) ==
    LET start == p
        end == IF peek(start + 1) # None /\ peek(start + 1)[2] = "="
               THEN start + 1 ELSE start
        value == Slice(start, end + 1)
    IN  IF OperatorKind(value) = "Invalid"
        THEN Fail(end + 1, conversion_error(value, start))
        ELSE Done(end + 1,
                  << Token(OperatorKind(value), start, end + 1, value) >>)

question_mark(p) ==
    LET start == p
        second == peek(start + 1) # None /\ peek(start + 1)[2] = "?"
        end == IF second THEN start + 1 ELSE start
        kind == IF second THEN "Operator(Logical(NullishCoalescing))"
                ELSE "Operator(QuestionMark)"
    IN  Done(end + 1, << Token(kind, start, end + 1, Slice(start, end + 1)) >>)

operator(p) ==
    LET start == p
        value == Slice(start, start + 1)
    IN  IF OperatorKind(value) = "Invalid"
        THEN Fail(start + 1, conversion_error(value, start))
        ELSE Done(start + 1,
                  << Token(OperatorKind(value), start, start + 1, value) >>)

(* Mutant: the literal matched after the word lacks the trailing space.    *)
not_without_trailing_space(p, start) ==
    IF next_if_is(p, <<" ", "i", "n">>)
    THEN LET end == position(p + 3)
         IN  Done(p + 3, << Token("Operator(Comparison(NotIn))", start, end,
                                  <<"n", "o", "t", " ", "i", "n">>) >>)
    ELSE LET end == position(p)
         IN  Done(p, << Token("Operator(Logical(Not))", start, end,
                              <<"n", "o", "t">>) >>)

(* Mutant: a failed match of the literal has consumed its first character. *)
not_consuming_on_failure(p, start) ==
    IF next_if_is(p, <<" ", "i", "n", " ">>)
    THEN LET end == position(p + 4)
         IN  Done(p + 4, << Token("Operator(Comparison(NotIn))", start, end - 1,
                                  <<"n", "o", "t", " ", "i", "n">>) >>)
    ELSE LET after == IF next_if_is(p, <<" ">>) THEN p + 1 ELSE p
             end == position(after)
         IN  Done(after, << Token("Operator(Logical(Not))", start, end,
                                  <<"n", "o", "t">>) >>)

(* Mutant: the NotIn span runs to the cursor, over the trailing space.     *)
not_span_to_cursor(p, start) ==
    IF next_if_is(p, <<" ", "i", "n", " ">>)
    THEN LET end == position(p + 4)
         IN  Done(p + 4, << Token("Operator(Comparison(NotIn))", start, end,
                                  <<"n", "o", "t", " ", "i", "n">>) >>)
    ELSE LET end == position(p)
         IN  Done(p, << Token("Operator(Logical(Not))", start, end,
                              <<"n", "o", "t">>) >>)

(* not(start), entered with the cursor at p, just after the word.          *)
not(p, start) ==
    IF next_if_is(p, <<" ", "i", "n", " ">>)
    THEN LET end == position(p + 4)
         IN  Done(p + 4, << Token("Operator(Comparison(NotIn))", start, end - 1,
                                  <<"n", "o", "t", " ", "i", "n">>) >>)
    ELSE LET end == position(p)
         IN  Done(p, << Token("Operator(Logical(Not))", start, end,
                              <<"n", "o", "t">>) >>)

(* Mutant: only alphabetic characters continue the run.                    *)
RECURSIVE identifier_end_alpha_only(_, _)
identifier_end_alpha_only(p, end) ==
    IF peek(p) # None /\ source[p + 1] \in Alpha
    THEN identifier_end_alpha_only(p + 1, p)
    ELSE end

(* The while-let loop of identifier(): the offset of the last character    *)
(* of the run of alphanumerics that starts at p, given the last one so far.*)
RECURSIVE identifier_end(_, _)
identifier_end(p, end) ==
    IF peek(p) # None /\ source[p + 1] \in Alphanumeric
    THEN identifier_end(p + 1, p)
    ELSE end

identifier(p) ==
    LET start == p
        end == identifier_end(start + 1, start)
        value == Slice(start, end + 1)
        one(kind) == Done(end + 1, << Token(kind, start, end + 1, value) >>)
    IN  CASE value = <<"a", "n", "d">> -> one("Operator(Logical(And))")
          [] value = <<"o", "r">> -> one("Operator(Logical(Or))")
          [] value = <<"i", "n">> -> one("Operator(Comparison(In))")
          [] value = <<"t", "r", "u", "e">> -> one("Boolean(true)")
          [] value = <<"f", "a", "l", "s", "e">> -> one("Boolean(false)")
          [] value = <<"n", "o", "t">> -> not(end + 1, start)
          [] OTHER -> one("Identifier")

----------------------------------------------------------------------------
(* template_string.  A frame holds the locals of one invocation:           *)
(* in_expression and str_start.  The four arms of its loop that consume    *)
(* the character at offset e themselves are given here; the arm (_, true)  *)
(* steps the cursor back and re-enters scan_cursor_item.                   *)

Frame(in_expression, str_start) ==
    [in_expression |-> in_expression, str_start |-> str_start]

Step(p, toks, frame) == [pos |-> p, toks |-> toks, frame |-> frame]

template_open(p) ==
    LET start == p
    IN  Step(start + 1,
             << Token("QuotationMark(Backtick)", start, start + 1, <<BT>>) >>,
             Frame(FALSE, start + 1))

(* Mutant: the pending literal text is dropped at the closing backtick.    *)
template_close_no_flush(f, e) ==
    Step(e + 1,
         << Token("QuotationMark(Backtick)", e, e + 1, <<BT>>) >>,
         f)

template_close(f, e) ==
    Step(e + 1,
         (IF f.str_start < e
          THEN << Token("Literal", f.str_start, e, Slice(f.str_start, e)) >>
          ELSE << >>)
         \o << Token("QuotationMark(Backtick)", e, e + 1, <<BT>>) >>,
         f)

(* Mutant: a dollar that opens no expression restarts the pending literal. *)
template_dollar_restarts_literal(f, e) ==
    LET in_expression == next_if_is(e + 1, <<"{">>)
    IN  IF in_expression
        THEN Step(e + 2,
                  << Token("Literal", f.str_start, e, Slice(f.str_start, e)),
                     Token("TemplateString(ExpressionStart)", e, e + 2,
                           <<"$", "{">>) >>,
                  Frame(TRUE, f.str_start))
        ELSE Step(e + 1, << >>, Frame(FALSE, e + 1))

template_dollar(f, e) ==
    LET in_expression == next_if_is(e + 1, <<"{">>)
    IN  IF in_expression
        THEN Step(e + 2,
                  << Token("Literal", f.str_start, e, Slice(f.str_start, e)),
                     Token("TemplateString(ExpressionStart)", e, e + 2,
                           <<"$", "{">>) >>,
                  Frame(TRUE, f.str_start))
        ELSE Step(e + 1, << >>, Frame(FALSE, f.str_start))

template_expression_end(f, e) ==
    Step(e + 1,
         << Token("TemplateString(ExpressionEnd)", f.str_start, e, <<"}">>) >>,
         Frame(FALSE, e + 1))

----------------------------------------------------------------------------
(* Dispatch.                                                               *)

(* The arm of the match in scan_cursor_item that the character s takes.    *)
scan_cursor_item(s) ==
    IF s \in Space THEN "space"
    ELSE IF s = "'" THEN "single_quote"
    ELSE IF s = "\"" THEN "double_quote"
    ELSE IF s \in Digit THEN "number"
    ELSE IF s \in BracketChars THEN "bracket"
    ELSE IF s \in CmpOperatorChars THEN "cmp_operator"
    ELSE IF s \in OperatorChars THEN "operator"
    ELSE IF s \in QuestionMarkChars THEN "question_mark"
    ELSE IF s = BT THEN "template_string"
    ELSE IF s = "." THEN "dot"
    ELSE IF s \in Alpha THEN "identifier"
    ELSE "unmatched"

Top == stack[Len(stack)]

Cur == source[pos + 1]

(* scan_cursor_item is entered on the character at the cursor: from the    *)
(* loop of scan, or from the arm (_, true) of template_string's loop after *)
(* cursor.back().                                                          *)
AtDispatch ==
    /\ pc = "scan"
    /\ peek(pos) # None
    /\ IF stack = << >> THEN TRUE
       ELSE Top.in_expression /\ Cur \notin {BT, "}"}

Dispatch(arm) == AtDispatch /\ scan_cursor_item(Cur) = arm

(* A routine returned r: Ok leaves the scanner running, an error ends the  *)
(* tokenize call (every caller propagates it with ?).                      *)
Return(r) ==
    /\ pos' = r.pos
    /\ tokens' = tokens \o r.toks
    /\ source' = source
    /\ calls' = calls
    /\ IF r.err = NoResult
       THEN UNCHANGED <<stack, pc, result>>
       ELSE stack' = << >> /\ pc' = "done" /\ result' = r.err

----------------------------------------------------------------------------
(* Actions.                                                                *)

(* How many calls of tokenize one Lexer value receives.                    *)
MaxCalls == 3

(* Mutant: the buffer is not cleared at the start of the call.             *)
tokenize_keeps_buffer(s) ==
    /\ pc \in {"idle", "done"}
    /\ calls < MaxCalls
    /\ source' = s
    /\ pos' = 0
    /\ tokens' = tokens
    /\ stack' = << >>
    /\ pc' = "scan"
    /\ result' = NoResult
    /\ calls' = calls + 1

(* Lexer::tokenize up to the first step of scan: the buffer is cleared and *)
(* a Scanner is built on the source.                                       *)
tokenize(s) ==
    /\ pc \in {"idle", "done"}
    /\ calls < MaxCalls
    /\ source' = s
    /\ pos' = 0
    /\ tokens' = << >>
    /\ stack' = << >>
    /\ pc' = "scan"
    /\ result' = NoResult
    /\ calls' = calls + 1

(* scan's loop ends: the cursor is exhausted at top level.                 *)
ScanEnd ==
    /\ pc = "scan"
    /\ stack = << >>
    /\ peek(pos) = None
    /\ pc' = "done"
    /\ result' = OkResult
    /\ UNCHANGED <<source, pos, tokens, stack, calls>>

ScanSpace == Dispatch("space") /\ Return(Done(pos + 1, << >>))

ScanSingleQuote ==
    Dispatch("single_quote") /\ Return(string(pos, "QuotationMark(SingleQuote)"))

ScanDoubleQuote ==
    Dispatch("double_quote") /\ Return(string(pos, "QuotationMark(DoubleQuote)"))

ScanNumber == Dispatch("number") /\ Return(number(pos))

ScanBracket == Dispatch("bracket") /\ Return(bracket(pos))

ScanCmpOperator == Dispatch("cmp_operator") /\ Return(cmp_operator(pos))

ScanOperator == Dispatch("operator") /\ Return(operator(pos))

ScanQuestionMark == Dispatch("question_mark") /\ Return(question_mark(pos))

ScanDot == Dispatch("dot") /\ Return(dot(pos))

ScanIdentifier == Dispatch("identifier") /\ Return(identifier(pos))

(* Mutant: a character of no category is skipped like a space.             *)
ScanUnmatchedSkips == Dispatch("unmatched") /\ Return(Done(pos + 1, << >>))

ScanUnmatched ==
    Dispatch("unmatched") /\ Return(Fail(pos, UnmatchedSymbol(Cur, pos)))

(* template_string is entered: the opening backtick is consumed and pushed.*)
TemplateOpen ==
    /\ Dispatch("template_string")
    /\ LET r == template_open(pos)
       IN  /\ pos' = r.pos
           /\ tokens' = tokens \o r.toks
           /\ stack' = Append(stack, r.frame)
    /\ UNCHANGED <<source, pc, result, calls>>

InTemplate == pc = "scan" /\ stack # << >>

SetTop(f) == [stack EXCEPT ![Len(stack)] = f]

(* self.next()? at the head of the loop fails.                             *)
TemplateEof ==
    /\ InTemplate
    /\ peek(pos) = None
    /\ Return(Fail(pos, next_eof(pos)))

(* ('`', _): the template string ends and template_string returns.         *)
TemplateClose ==
    /\ InTemplate
    /\ peek(pos) # None
    /\ Cur = BT
    /\ LET r == template_close(Top, pos)
       IN  /\ pos' = r.pos
           /\ tokens' = tokens \o r.toks
           /\ stack' = SubSeq(stack, 1, Len(stack) - 1)
    /\ UNCHANGED <<source, pc, result, calls>>

(* ('$', false)                                                            *)
TemplateDollar ==
    /\ InTemplate
    /\ peek(pos) # None
    /\ Cur = "$"
    /\ ~Top.in_expression
    /\ LET r == template_dollar(Top, pos)
       IN  /\ pos' = r.pos
           /\ tokens' = tokens \o r.toks
           /\ stack' = SetTop(r.frame)
    /\ UNCHANGED <<source, pc, result, calls>>

(* ('}', true)                                                             *)
TemplateExpressionEnd ==
    /\ InTemplate
    /\ peek(pos) # None
    /\ Cur = "}"
    /\ Top.in_expression
    /\ LET r == template_expression_end(Top, pos)
       IN  /\ pos' = r.pos
           /\ tokens' = tokens \o r.toks
           /\ stack' = SetTop(r.frame)
    /\ UNCHANGED <<source, pc, result, calls>>

(* (_, false): continue reading the literal text.                          *)
TemplateText ==
    /\ InTemplate
    /\ peek(pos) # None
    /\ Cur \notin {BT, "$"}
    /\ ~Top.in_expression
    /\ pos' = pos + 1
    /\ UNCHANGED <<source, tokens, stack, pc, result, calls>>

Scanner ==
    \/ ScanEnd
    \/ ScanSpace
    \/ ScanSingleQuote
    \/ ScanDoubleQuote
    \/ ScanNumber
    \/ ScanBracket
    \/ ScanCmpOperator
    \/ ScanOperator
    \/ ScanQuestionMark
    \/ ScanDot
    \/ ScanIdentifier
    \/ ScanUnmatched
    \/ TemplateOpen
    \/ TemplateEof
    \/ TemplateClose
    \/ TemplateDollar
    \/ TemplateExpressionEnd
    \/ TemplateText

Init ==
    /\ source = << >>
    /\ pos = 0
    /\ tokens = << >>
    /\ stack = << >>
    /\ pc = "idle"
    /\ result = NoResult
    /\ calls = 0

----------------------------------------------------------------------------
(* Sources.                                                                *)

(* `a${1+2}b` *)
ExTemplate == <<BT, "a", "$", "{", "1", "+", "2", "}", "b", BT>>

(* not in *)
ExNotIn == <<"n", "o", "t", " ", "i", "n">>

(* not x *)
ExNotX == <<"n", "o", "t", " ", "x">>

(* x not in y *)
ExNotInX == <<"x", " ", "n", "o", "t", " ", "i", "n", " ", "y">>

(* 12.34 *)
ExDecimal == <<"1", "2", ".", "3", "4">>

(* 1..2 *)
ExRange == <<"1", ".", ".", "2">>

(* 1.2.3 *)
ExDots == <<"1", ".", "2", ".", "3">>

(* 'a"b' *)
ExSingle == <<"'", "a", "\"", "b", "'">>

(* "a'b" *)
ExDouble == <<"\"", "a", "'", "b", "\"">>

(* "abc *)
ExUnterminated == <<"\"", "a", "b", "c">>

(* 1 # *)
ExHash == <<"1", " ", "#">>

(* (a?b:c)??d<=e.f *)
ExOperators == <<"(", "a", "?", "b", ":", "c", ")", "?", "?", "d", "<", "=", "e", ".", "f">>

(* a=1 *)
ExAssign == <<"a", "=", "1">>

(* true and false or nothing *)
ExKeywords == <<"t", "r", "u", "e", " ", "a", "n", "d", " ", "f", "a", "l", "s", "e", " ", "o", "r", " ", "n", "o", "t", "h", "i", "n", "g">>

(* `${`a`}` *)
ExNested == <<BT, "$", "{", BT, "a", BT, "}", BT>>

(* `${a}${b}` *)
ExAdjacent == <<BT, "$", "{", "a", "}", "$", "{", "b", "}", BT>>

(* `a$b` *)
ExLoneDollar == <<BT, "a", "$", "b", BT>>

(* `a${1 *)
ExOpenExpression == <<BT, "a", "$", "{", "1">>

(* `${'}'}` *)
ExQuotedBrace == <<BT, "$", "{", "'", "}", "'", "}", BT>>

Examples ==
    {ExTemplate, ExNotIn, ExNotX, ExNotInX,
     ExDecimal, ExRange, ExDots, ExSingle,
     ExDouble, ExUnterminated, ExHash, ExOperators,
     ExAssign, ExKeywords, ExNested, ExAdjacent,
     ExLoneDollar, ExOpenExpression, ExQuotedBrace}

(* Every concatenation of at most k of the fragments F.                    *)
RECURSIVE Concats(_, _)
Concats(F, k) ==
    IF k = 0 THEN {<< >>}
    ELSE LET S == Concats(F, k - 1)
         IN  S \cup {s \o f : s \in S, f \in F}

MaxPieces == 2

Fragments ==
    {<<BT>>, <<"$", "{">>, <<"}">>, <<"$">>, <<"a">>, <<"1">>, <<".">>,
     <<"_">>, <<"'">>, <<"\"">>, <<" ">>, <<"n", "o", "t">>, <<"i", "n">>,
     <<"+">>, <<"=">>, <<"?">>, <<"(">>, <<"#">>}

Sources == Examples \cup Concats(Fragments, MaxPieces)

MaxTemplatePieces == 5

TemplateFragments ==
    {<<BT>>, <<"$", "{">>, <<"}">>, <<"$">>, <<"a">>, <<"1">>}

(* Template strings with leading text, one embedded expression and         *)
(* trailing text.                                                          *)
Texts == {<<"a">>, <<"a", "b">>, <<"$">>, <<"a", "$">>, <<"}">>, <<" ">>,
          <<"'">>, <<"1">>}

Expressions ==
    {<< >>, <<"1">>, <<"a">>, <<" ">>, <<"1", "+", "2">>, <<"a", ".", "b">>,
     <<"'", "a", "'">>, <<"'", "}", "'">>, <<"n", "o", "t", " ", "a">>,
     <<"(", "1", ")">>}

Interpolation(lead, expr, trail) ==
    <<BT>> \o lead \o <<"$", "{">> \o expr \o <<"}">> \o trail \o <<BT>>

Interpolations ==
    {Interpolation(lead, expr, trail) :
        lead \in Texts, expr \in Expressions, trail \in Texts}

TemplateSources ==
    Examples \cup Interpolations
             \cup Concats(TemplateFragments, MaxTemplatePieces)

(* The sources a Lexer that has already been used is called on again.      *)
Again == {ExTemplate, ExUnterminated, ExHash, << >>}

Tokenize(S) ==
    \/ pc = "idle" /\ \E s \in S : tokenize(s)
    \/ pc = "done" /\ \E s \in Again : tokenize(s)

Next == Tokenize(Sources) \/ Scanner

Spec == Init /\ [][Next]_vars

(* tokenize runs to completion within one call: once entered, the scanner  *)
(* keeps taking steps.                                                     *)
SpecLive == Init /\ [][Next]_vars /\ WF_vars(Scanner)

NextTemplate == Tokenize(TemplateSources) \/ Scanner

SpecTemplate == Init /\ [][NextTemplate]_vars

MaxStringPieces == 5

StringFragments ==
    {<<"'">>, <<"\"">>, <<BT>>, <<"$", "{">>, <<"}">>, <<"a">>}

(* `${'`'}` *)
ExQuotedBacktick == <<BT, "$", "{", "'", BT, "'", "}", BT>>

(* `${"a}`"}` *)
ExQuotedBoth == <<BT, "$", "{", "\"", "a", "}", BT, "\"", "}", BT>>

StringSources ==
    Examples \cup {ExQuotedBacktick, ExQuotedBoth}
             \cup Concats(StringFragments, MaxStringPieces)

NextString == Tokenize(StringSources) \/ Scanner

SpecString == Init /\ [][NextString]_vars

MaxWordPieces == 5

WordFragments ==
    {<<"n", "o", "t">>, <<"i", "n">>, <<" ">>, <<"x">>, <<"i">>, <<"(">>}

(* Runs that are keywords, and runs that merely start with one.            *)
KeywordRuns ==
    {<<"a", "n", "d">>, <<"o", "r">>, <<"t", "r", "u", "e">>,
     <<"f", "a", "l", "s", "e">>, <<"a", "n", "d", "r", "o", "i", "d">>,
     <<"i", "n", "s", "i", "d", "e">>, <<"t", "r", "u", "e", "1">>,
     <<"n", "o", "t", "h", "i", "n", "g">>, <<"o", "r", "2", " ", "o", "r">>,
     <<"f", "a", "l", "s", "e", "(">>, <<"n", "o", "t", "1">>}

(* `${not in }` and `${x not in y}` *)
ExNotInTemplate ==
    <<BT, "$", "{", "n", "o", "t", " ", "i", "n", " ", "}", BT>>

ExNotInExpression ==
    <<BT, "$", "{", "x", " ", "n", "o", "t", " ", "i", "n", " ", "y", "}", BT>>

WordSources ==
    Examples \cup KeywordRuns \cup {ExNotInTemplate, ExNotInExpression}
             \cup Concats(WordFragments, MaxWordPieces)

NextWord == Tokenize(WordSources) \/ Scanner

SpecWord == Init /\ [][NextWord]_vars

MaxNumberPieces == 5

NumberFragments ==
    {<<"1">>, <<"2">>, <<".">>, <<"_">>, <<" ">>, <<"}">>}

NumberSources == Examples \cup Concats(NumberFragments, MaxNumberPieces)

NextNumber == Tokenize(NumberSources) \/ Scanner

SpecNumber == Init /\ [][NextNumber]_vars

----------------------------------------------------------------------------
(* Claims.                                                                 *)

Finished == pc = "done"

Succeeded == pc = "done" /\ result = OkResult

Kinds == [i \in 1..Len(tokens) |-> tokens[i].kind]

(* The tokens this step appended to the buffer.                            *)
Pushed == SubSeq(tokens', Len(tokens) + 1, Len(tokens'))

(* The loop of template_string is at one of the arms that it handles       *)
(* itself, without re-entering scan_cursor_item.                           *)
TemplateOwnStep == InTemplate /\ ~AtDispatch

(* C1: after a successful tokenize the spans of the emitted tokens do not  *)
(* overlap and their starts strictly increase from one token to the next.  *)
C1_SpansStrictlyIncreasing ==
    Succeeded =>
        \A i \in 1..(Len(tokens) - 1) :
            /\ tokens[i].start < tokens[i + 1].start
            /\ tokens[i].end <= tokens[i + 1].start

(* C2: a template string with non-empty leading text, one embedded         *)
(* expression and non-empty trailing text tokenizes successfully to        *)
(* Backtick, Literal(lead), ExpressionStart, the expression's own tokens   *)
(* in source order, ExpressionEnd, Literal(trail), Backtick; for the       *)
(* template a${1+2}b the expression's tokens are Number 1, Operator +,     *)
(* Number 2.                                                               *)
ExpressionKinds(expr) ==
    CASE expr = << >> -> << >>
      [] expr = <<"1">> -> <<"Number">>
      [] expr = <<"a">> -> <<"Identifier">>
      [] expr = <<" ">> -> << >>
      [] expr = <<"1", "+", "2">> ->
            <<"Number", "Operator(Arithmetic(Add))", "Number">>
      [] expr = <<"a", ".", "b">> ->
            <<"Identifier", "Operator(Dot)", "Identifier">>
      [] expr = <<"'", "a", "'">> ->
            <<"QuotationMark(SingleQuote)", "Literal",
              "QuotationMark(SingleQuote)">>
      [] expr = <<"'", "}", "'">> ->
            <<"QuotationMark(SingleQuote)", "Literal",
              "QuotationMark(SingleQuote)">>
      [] expr = <<"n", "o", "t", " ", "a">> ->
            <<"Operator(Logical(Not))", "Identifier">>
      [] expr = <<"(", "1", ")">> ->
            <<"Bracket(LeftParenthesis)", "Number",
              "Bracket(RightParenthesis)">>

C2_InterpolationShape(lead, expr, trail) ==
    LET n == Len(tokens)
        inner == SubSeq(tokens, 4, n - 3)
    IN  /\ result = OkResult
        /\ Kinds = <<"QuotationMark(Backtick)", "Literal",
                     "TemplateString(ExpressionStart)">>
                   \o ExpressionKinds(expr)
                   \o <<"TemplateString(ExpressionEnd)", "Literal",
                        "QuotationMark(Backtick)">>
        /\ tokens[2].value = lead
        /\ tokens[n - 1].value = trail
        /\ \A i \in 1..Len(inner) :
              /\ inner[i].value = Slice(inner[i].start, inner[i].end)
              /\ Len(lead) + 3 <= inner[i].start
              /\ inner[i].end <= Len(lead) + 3 + Len(expr)
              /\ i > 1 => inner[i - 1].end <= inner[i].start

C2_TemplateTokenOrder ==
    /\ Finished =>
          \A lead \in Texts, expr \in Expressions, trail \in Texts :
              source = Interpolation(lead, expr, trail)
                  => C2_InterpolationShape(lead, expr, trail)
    /\ Finished /\ source = ExTemplate =>
          [i \in 1..Len(tokens) |-> tokens[i].value]
              = << <<BT>>, <<"a">>, <<"$", "{">>, <<"1">>, <<"+">>, <<"2">>,
                   <<"}">>, <<"b">>, <<BT>> >>

C2_Witness ==
    /\ Succeeded
    /\ source = ExTemplate
    /\ Len(tokens) = 9
    /\ tokens[8] = Token("Literal", 8, 9, <<"b">>)

(* C3: template_string never pushes a Literal token with an empty span,    *)
(* neither when it meets ${ nor when it meets the closing backtick.        *)
C3_NoEmptyTemplateLiteral ==
    [][TemplateOwnStep =>
          \A i \in 1..Len(Pushed) :
              Pushed[i].kind = "Literal" => Pushed[i].start < Pushed[i].end]_vars

(* C4: every ExpressionEnd token spans exactly the embedded expression: it *)
(* starts where the ExpressionStart token it closes ends and ends at the   *)
(* offset of the closing brace.                                            *)
Opener(j) ==
    CHOOSE i \in 1..(j - 1) :
        /\ tokens[i].kind = "TemplateString(ExpressionStart)"
        /\ \A k \in (i + 1)..(j - 1) :
              tokens[k].kind # "TemplateString(ExpressionStart)"

C4_ExpressionEndSpan ==
    \A j \in 1..Len(tokens) :
        tokens[j].kind = "TemplateString(ExpressionEnd)" =>
            /\ \E i \in 1..(j - 1) :
                  tokens[i].kind = "TemplateString(ExpressionStart)"
            /\ tokens[j].start = tokens[Opener(j)].end
            /\ source[tokens[j].end + 1] = "}"

(* C5: in expression mode every character other than the closing brace is  *)
(* re-dispatched through scan_cursor_item; a backtick there opens a nested *)
(* template string and leaves the enclosing one open.                      *)
C5_NestedTemplateOpens ==
    [][(InTemplate /\ peek(pos) # None /\ Top.in_expression /\ Cur # "}") =>
          /\ AtDispatch
          /\ Cur = BT =>
                /\ stack' = Append(stack, Frame(FALSE, pos + 1))
                /\ Pushed = << Token("QuotationMark(Backtick)", pos, pos + 1,
                                     <<BT>>) >>]_vars

(* C6: the source "not in", ending right after the word in, tokenizes to   *)
(* the single token NotIn with the span (0, 6).                            *)
C6_NotInAtEndOfInput ==
    Finished /\ source = ExNotIn =>
        /\ result = OkResult
        /\ tokens = << Token("Operator(Comparison(NotIn))", 0, 6,
                             <<"n", "o", "t", " ", "i", "n">>) >>

(* C6 as amended: "not in" at the end of the input tokenizes to Not (0, 3) *)
(* and In (4, 6); the single NotIn token with span (0, 6) is produced when *)
(* a space follows the word in.                                            *)
C6_NotInNeedsTrailingSpace ==
    /\ Finished /\ source = ExNotIn =>
          /\ result = OkResult
          /\ tokens = << Token("Operator(Logical(Not))", 0, 3,
                               <<"n", "o", "t">>),
                         Token("Operator(Comparison(In))", 4, 6, <<"i", "n">>) >>
    /\ Finished /\ source = ExNotIn \o <<" ">> =>
          /\ result = OkResult
          /\ tokens = << Token("Operator(Comparison(NotIn))", 0, 6,
                               <<"n", "o", "t", " ", "i", "n">>) >>

C6_Witness ==
    /\ Succeeded
    /\ source = ExNotIn
    /\ Len(tokens) = 2
    /\ tokens[2].kind = "Operator(Comparison(In))"

(* The word at the cursor is exactly w: w starts at the cursor and no      *)
(* alphanumeric character follows it.                                      *)
WordAtCursor(w) ==
    /\ next_if_is(pos, w)
    /\ peek(pos + Len(w)) # None => peek(pos + Len(w))[2] \notin Alphanumeric

(* C7: when the word not is not followed by " in ", exactly one Not token  *)
(* of length 3 is pushed and the cursor stays just after the word, so the  *)
(* text that follows is tokenized normally: "not x" gives Not, then the    *)
(* Identifier x.                                                           *)
C7_NotAloneConsumesNothingMore ==
    /\ [](Finished /\ source = ExNotX =>
            /\ result = OkResult
            /\ tokens = << Token("Operator(Logical(Not))", 0, 3,
                                 <<"n", "o", "t">>),
                           Token("Identifier", 4, 5, <<"x">>) >>)
    /\ [][(/\ Dispatch("identifier")
           /\ WordAtCursor(<<"n", "o", "t">>)
           /\ ~next_if_is(pos + 3, <<" ", "i", "n", " ">>)) =>
              /\ Pushed = << Token("Operator(Logical(Not))", pos, pos + 3,
                                   <<"n", "o", "t">>) >>
              /\ pos' = pos + 3
              /\ UNCHANGED <<source, stack, pc, result>>]_vars

C7_Witness ==
    /\ Succeeded
    /\ source = ExNotX
    /\ Len(tokens) = 2
    /\ tokens[1].kind = "Operator(Logical(Not))"
    /\ tokens[2].start = 4

(* The offsets after the cursor at which the character c occurs.           *)
Later(c) == {e \in (pos + 1)..(Len(source) - 1) : source[e + 1] = c}

(* C8: a quote q, a body without q and q again give exactly the three      *)
(* tokens QuotationMark(q) (s, s+1), Literal (s+1, e), QuotationMark(q)    *)
(* (e, e+1): contiguous spans, the Literal's value is the body (possibly   *)
(* empty), the three spans' text is the original substring, and the other  *)
(* quote character inside the body does not end the string.                *)
C8_StringThreeTokens ==
    [][(AtDispatch /\ Cur \in {"'", "\""} /\ Later(Cur) # {}) =>
          LET s == pos
              q == Cur
              e == CHOOSE x \in Later(q) : \A y \in Later(q) : x <= y
              body == SubSeq(source, s + 2, e)
          IN  /\ Len(Pushed) = 3
              /\ Pushed[1] = Token(QuoteKind(q), s, s + 1, <<q>>)
              /\ Pushed[2] = Token("Literal", s + 1, e, body)
              /\ Pushed[3] = Token(QuoteKind(q), e, e + 1, <<q>>)
              /\ \A k \in 1..Len(body) : body[k] # q
              /\ Pushed[1].value \o Pushed[2].value \o Pushed[3].value
                    = SubSeq(source, s + 1, e + 1)
              /\ pos' = e + 1
              /\ UNCHANGED <<source, stack, pc, result>>]_vars

C8_Witness ==
    /\ Succeeded
    /\ source = ExSingle
    /\ Len(tokens) = 3
    /\ tokens[2] = Token("Literal", 1, 4, <<"a", "\"", "b">>)

Last == Len(source)

(* C9: when the input ends inside a quoted string that lacks its closing   *)
(* quote, or inside a template string in literal-text or expression mode,  *)
(* tokenize returns UnexpectedEof with the last character of the buffer    *)
(* and its position; a source that opens a template string and holds no   *)
(* second backtick never tokenizes to Ok.                                  *)
C9_UnexpectedEofInsideStrings ==
    /\ [](Finished /\ source # << >> /\ source[1] = BT
              /\ (\A k \in 2..Len(source) : source[k] # BT)
            => result # OkResult)
    /\ [][(\/ InTemplate /\ peek(pos) = None
           \/ AtDispatch /\ Cur \in {"'", "\""} /\ Later(Cur) = {}) =>
              /\ pc' = "done"
              /\ result' = UnexpectedEof(source[Last], Last - 1)]_vars

C9_Witness ==
    /\ Finished
    /\ source = ExOpenExpression
    /\ result = UnexpectedEof("1", 4)
    /\ Len(tokens) = 4

Dots(value) == Cardinality({k \in 1..Len(value) : value[k] = "."})

(* C10: a Number token holds at most one dot and never a dot that another  *)
(* dot follows at once: 12.34 is one Number; 1..2 is Number 1, the range   *)
(* operator, Number 2; 1.2.3 gives Number 1.2 and scanning goes on at the  *)
(* second dot.                                                            *)
C10_NumberDots ==
    /\ \A i \in 1..Len(tokens) :
          tokens[i].kind = "Number" =>
              /\ tokens[i].value = Slice(tokens[i].start, tokens[i].end)
              /\ Dots(tokens[i].value) <= 1
              /\ \A k \in tokens[i].start..(tokens[i].end - 1) :
                    (source[k + 1] = "." /\ k + 1 < Len(source))
                        => source[k + 2] # "."
    /\ Finished /\ source = ExDecimal =>
          /\ result = OkResult
          /\ tokens = << Token("Number", 0, 5, ExDecimal) >>
    /\ Finished /\ source = ExRange =>
          /\ result = OkResult
          /\ tokens = << Token("Number", 0, 1, <<"1">>),
                         Token("Operator(Range)", 1, 3, <<".", ".">>),
                         Token("Number", 3, 4, <<"2">>) >>
    /\ source = ExDots /\ tokens # << >> =>
          tokens[1] = Token("Number", 0, 3, <<"1", ".", "2">>)
    /\ source = ExDots /\ Len(tokens) = 1 => pos = 3 /\ pc = "scan"
    /\ Finished /\ source = ExDots =>
          /\ result = OkResult
          /\ Len(tokens) = 3
          /\ tokens[2] = Token("Operator(Dot)", 3, 4, <<".">>)

C10_Witness ==
    /\ Succeeded
    /\ source = ExRange
    /\ Len(tokens) = 3
    /\ tokens[1] = Token("Number", 0, 1, <<"1">>)

(* What tokenize leaves in the buffer and returns for each of the sources  *)
(* of Again when it is the first call on a fresh Lexer.                    *)
FreshTokens(s) ==
    CASE s = ExTemplate ->
            << Token("QuotationMark(Backtick)", 0, 1, <<BT>>),
               Token("Literal", 1, 2, <<"a">>),
               Token("TemplateString(ExpressionStart)", 2, 4, <<"$", "{">>),
               Token("Number", 4, 5, <<"1">>),
               Token("Operator(Arithmetic(Add))", 5, 6, <<"+">>),
               Token("Number", 6, 7, <<"2">>),
               Token("TemplateString(ExpressionEnd)", 1, 7, <<"}">>),
               Token("Literal", 8, 9, <<"b">>),
               Token("QuotationMark(Backtick)", 9, 10, <<BT>>) >>
      [] s = ExHash -> << Token("Number", 0, 1, <<"1">>) >>
      [] OTHER -> << >>

FreshResult(s) ==
    CASE s = ExUnterminated -> UnexpectedEof("c", 3)
      [] s = ExHash -> UnmatchedSymbol("#", 2)
      [] OTHER -> OkResult

(* C11: whatever calls came before on the same Lexer, tokenize(s) ends     *)
(* with the tokens and the result of a first call on a fresh Lexer, and    *)
(* the buffer never holds a token of an earlier call: every token in it    *)
(* lies before the cursor of the call in progress.                         *)
C11_TokenizeDependsOnlyOnSource ==
    /\ Finished /\ source \in Again =>
          /\ tokens = FreshTokens(source)
          /\ result = FreshResult(source)
    /\ pc # "idle" => \A i \in 1..Len(tokens) : tokens[i].end <= pos

C11_Witness ==
    /\ Finished
    /\ calls = MaxCalls
    /\ source = ExHash
    /\ tokens = FreshTokens(ExHash)
    /\ result = FreshResult(ExHash)

(* The character c belongs to none of the categories scan_cursor_item     *)
(* dispatches on.                                                          *)
NoCategory(c) ==
    c \notin (Space \cup Digit \cup BracketChars \cup CmpOperatorChars
                \cup OperatorChars \cup QuestionMarkChars \cup Alpha
                \cup {"'", "\"", BT, "."})

C13_ValueIsSpanText ==
    Succeeded =>
        \A i \in 1..Len(tokens) :
            tokens[i].kind # "Operator(Comparison(NotIn))" =>
                tokens[i].value = Slice(tokens[i].start, tokens[i].end)

(* C13 as amended: after a successful tokenize every token's value is the  *)
(* source text of its span, the NotIn token included, except for the       *)
(* ExpressionEnd tokens: their value is the closing brace while their span *)
(* ends before that brace.                                                 *)
C13_ValueIsSpanTextButExpressionEnd ==
    Succeeded =>
        \A i \in 1..Len(tokens) :
            IF tokens[i].kind = "TemplateString(ExpressionEnd)"
            THEN /\ tokens[i].value = <<"}">>
                 /\ source[tokens[i].end + 1] = "}"
                 /\ tokens[i].value # Slice(tokens[i].start, tokens[i].end)
            ELSE tokens[i].value = Slice(tokens[i].start, tokens[i].end)

C13_Witness ==
    /\ Succeeded
    /\ source = ExTemplate
    /\ tokens[7].kind = "TemplateString(ExpressionEnd)"
    /\ tokens[7].value = <<"}">>
    /\ Slice(tokens[7].start, tokens[7].end)
          = <<"a", "$", "{", "1", "+", "2">>

(* C14: every step of the scanner that does not end the call moves the     *)
(* cursor strictly forward, also after number or template_string stepped   *)
(* it back by one, the cursor never passes the end of the source, and      *)
(* every tokenize call ends, with Ok or with the first error.              *)
C14_ProgressAndTermination ==
    /\ [][(pc = "scan" /\ pc' = "scan") => pos' > pos]_vars
    /\ [](pos <= Len(source))
    /\ (pc = "scan") ~> (pc = "done")

C14_Witness ==
    /\ Succeeded
    /\ source = ExDots
    /\ pos = Len(source)
    /\ Len(tokens) = 3

(* The template markers of tokens[i..] are balanced, given the modes of    *)
(* the template strings still open ("literal" or "expression", innermost   *)
(* last): a Backtick opens a template at top level or inside an            *)
(* expression and closes one in literal mode, ExpressionStart needs        *)
(* literal mode, ExpressionEnd needs expression mode, and no template is   *)
(* left open at the end.                                                   *)
RECURSIVE Balanced(_, _)
Balanced(i, open) ==
    IF i > Len(tokens) THEN open = << >>
    ELSE LET k == tokens[i].kind
             n == Len(open)
             inLiteral == n > 0 /\ open[n] = "literal"
             inExpression == n > 0 /\ open[n] = "expression"
         IN  CASE k = "QuotationMark(Backtick)" ->
                    IF inLiteral
                    THEN Balanced(i + 1, SubSeq(open, 1, n - 1))
                    ELSE Balanced(i + 1, Append(open, "literal"))
               [] k = "TemplateString(ExpressionStart)" ->
                    /\ inLiteral
                    /\ Balanced(i + 1, [open EXCEPT ![n] = "expression"])
               [] k = "TemplateString(ExpressionEnd)" ->
                    /\ inExpression
                    /\ Balanced(i + 1, [open EXCEPT ![n] = "literal"])
               [] OTHER -> Balanced(i + 1, open)

(* C15: in every successful result the template markers are balanced:      *)
(* inside each template string ExpressionStart and ExpressionEnd alternate,*)
(* starting with ExpressionStart, and every ExpressionStart has its        *)
(* ExpressionEnd before that template's closing Backtick.                  *)
C15_TemplateMarkersBalanced == Succeeded => Balanced(1, << >>)

(* C16: in literal-text mode a dollar that no brace follows changes no     *)
(* state and pushes no token: only the dollar is consumed, and it ends up  *)
(* inside the Literal flushed later.                                       *)
C16_LoneDollarIsLiteralText ==
    /\ [][(/\ InTemplate
           /\ ~Top.in_expression
           /\ peek(pos) # None
           /\ Cur = "$"
           /\ (peek(pos + 1) = None \/ peek(pos + 1)[2] # "{")) =>
              /\ pos' = pos + 1
              /\ UNCHANGED <<source, tokens, stack, pc, result, calls>>]_vars
    /\ [](Finished /\ source = ExLoneDollar =>
            /\ result = OkResult
            /\ tokens = << Token("QuotationMark(Backtick)", 0, 1, <<BT>>),
                           Token("Literal", 1, 4, <<"a", "$", "b">>),
                           Token("QuotationMark(Backtick)", 4, 5, <<BT>>) >>)

C16_Witness ==
    /\ Succeeded
    /\ source = ExLoneDollar
    /\ Len(tokens) = 3
    /\ tokens[2].value = <<"a", "$", "b">>

NotInStep ==
    /\ Dispatch("identifier")
    /\ WordAtCursor(<<"n", "o", "t">>)
    /\ next_if_is(pos + 3, <<" ", "i", "n", " ">>)

NotInPushed ==
    /\ Pushed = << Token("Operator(Comparison(NotIn))", pos, pos + 6,
                         <<"n", "o", "t", " ", "i", "n">>) >>
    /\ pos' = pos + 7
    /\ UNCHANGED <<source, stack, pc, result, calls>>

RunEnd ==
    CHOOSE r \in (pos + 1)..Len(source) :
        /\ \A k \in (pos + 2)..r : source[k] \in Alphanumeric
        /\ r < Len(source) => source[r + 1] \notin Alphanumeric

Run == Slice(pos, RunEnd)

KeywordKind(run) ==
    CASE run = <<"a", "n", "d">> -> {"Operator(Logical(And))"}
      [] run = <<"o", "r">> -> {"Operator(Logical(Or))"}
      [] run = <<"i", "n">> -> {"Operator(Comparison(In))"}
      [] run = <<"t", "r", "u", "e">> -> {"Boolean(true)"}
      [] run = <<"f", "a", "l", "s", "e">> -> {"Boolean(false)"}
      [] run = <<"n", "o", "t">> ->
            {"Operator(Logical(Not))", "Operator(Comparison(NotIn))"}
      [] OTHER -> {"Identifier"}

IdentifierOf(src) ==
    Finished /\ source = src =>
        /\ result = OkResult
        /\ tokens = << Token("Identifier", 0, Len(src), src) >>

(* C18: identifier consumes the longest run of an alphabetic character     *)
(* followed by alphanumerics and classifies the whole run: And, Or, In,    *)
(* Boolean(true), Boolean(false) or the not-handling only when the whole   *)
(* run is and, or, in, true, false or not, and otherwise one Identifier    *)
(* carrying the run, as for android, inside, true1 and nothing.            *)
C18_IdentifierClassifiesWholeRun ==
    /\ [][Dispatch("identifier") =>
            /\ Len(Pushed) = 1
            /\ Pushed[1].kind \in KeywordKind(Run)
            /\ Pushed[1].start = pos
            /\ Run # <<"n", "o", "t">> =>
                  /\ Pushed[1] = Token(Pushed[1].kind, pos, RunEnd, Run)
                  /\ pos' = RunEnd]_vars
    /\ [](/\ IdentifierOf(<<"a", "n", "d", "r", "o", "i", "d">>)
          /\ IdentifierOf(<<"i", "n", "s", "i", "d", "e">>)
          /\ IdentifierOf(<<"t", "r", "u", "e", "1">>)
          /\ IdentifierOf(<<"n", "o", "t", "h", "i", "n", "g">>))

C18_Witness ==
    /\ Succeeded
    /\ source = <<"t", "r", "u", "e", "1">>
    /\ tokens = << Token("Identifier", 0, 5, <<"t", "r", "u", "e", "1">>) >>

InExpression == stack # << >> /\ Top.in_expression

(* A quote at the cursor in expression mode whose string body, up to the   *)
(* next occurrence of the same quote, holds a closing brace or a backtick. *)
QuotedTemplateCharacter ==
    /\ pc = "scan"
    /\ InExpression
    /\ peek(pos) # None
    /\ Cur \in {"'", "\""}
    /\ Later(Cur) # {}
    /\ LET e == CHOOSE x \in Later(Cur) : \A y \in Later(Cur) : x <= y
       IN  \E k \in (pos + 2)..e : source[k] \in {"}", BT}

(* C19: a closing brace or a backtick inside a quoted string nested in an  *)
(* embedded expression ends neither the expression nor the template: the   *)
(* string routine takes it into the Literal body and the template's frame  *)
(* is untouched; the frame changes only at a brace or backtick that        *)
(* template_string reads itself at the cursor.                             *)
C19_QuotedBraceStaysInString ==
    /\ [][QuotedTemplateCharacter =>
            LET q == Cur
                e == CHOOSE x \in Later(q) : \A y \in Later(q) : x <= y
            IN  /\ Pushed = << Token(QuoteKind(q), pos, pos + 1, <<q>>),
                               Token("Literal", pos + 1, e,
                                     SubSeq(source, pos + 2, e)),
                               Token(QuoteKind(q), e, e + 1, <<q>>) >>
                /\ pos' = e + 1
                /\ UNCHANGED <<source, stack, pc, result, calls>>]_vars
    /\ [][(InExpression /\ pc' = "scan" /\ stack' # stack) =>
            /\ peek(pos) # None
            /\ Cur \in {"}", BT}
            /\ pos' = pos + 1]_vars
    /\ [](Finished /\ source = ExQuotedBoth =>
            /\ result = OkResult
            /\ Kinds = << "QuotationMark(Backtick)", "Literal",
                          "TemplateString(ExpressionStart)",
                          "QuotationMark(DoubleQuote)", "Literal",
                          "QuotationMark(DoubleQuote)",
                          "TemplateString(ExpressionEnd)",
                          "QuotationMark(Backtick)" >>
            /\ tokens[5] = Token("Literal", 4, 7, <<"a", "}", BT>>)
            /\ tokens[7].end = 8)

C19_Witness ==
    /\ Succeeded
    /\ source = ExQuotedBoth
    /\ Len(tokens) = 8
    /\ tokens[5].value = <<"a", "}", BT>>
    /\ tokens[7].kind = "TemplateString(ExpressionEnd)"

WellFormed(t) == 0 <= t.start /\ t.start <= t.end /\ t.end <= Len(source)

(* C20: every token pushed during a tokenize call has a well-formed span   *)
(* inside the source, 0 <= start <= end <= length of the source, and the   *)
(* cursor never passes the end of the input, so every slice taken of the   *)
(* source is in bounds.                                                    *)
C20_SpansInsideSource ==
    pc # "idle" =>
        /\ \A i \in 1..Len(tokens) : WellFormed(tokens[i])
        /\ 0 <= pos /\ pos <= Len(source)

C20_Witness ==
    /\ Succeeded
    /\ source = ExTemplate
    /\ Len(tokens) = 9
    /\ tokens[1].start = 0
    /\ tokens[4] = Token("Number", 4, 5, <<"1">>)
    /\ tokens[9].end = Len(source)

====
